---- MODULE Spec2Model ----
(***************************************************************************)
(* Brew tracking: batches moving through production phases in a catalog    *)
(* of nine tanks, the bottle inventory, and customer orders.               *)
(*                                                                         *)
(* Modelled from src/data_structure_brew_tracking.py (Tanks, Inventory,    *)
(* Batch) and src/interface_brew_tracking.py (the Flask request handlers   *)
(* add_delete_batch, change_batchs_phase, register_dispatch_delete_order). *)
(*                                                                         *)
(* Time is counted in minutes.  The "" sentinel the code uses for a        *)
(* timestamp or bottle number that is not set yet is Unset.                *)
(***************************************************************************)
EXTENDS Integers, FiniteSets, Sequences, TLC

VARIABLES
    batches,    \* app.config["batches"]: batch id -> Batch object
    inventory,  \* app.config["inventory"]: beer type -> {"num": n}
    orders,     \* app.config["customer_orders"]: invoice number -> order dict
    now,        \* the clock datetime.now() reads, in minutes
    resp,       \* the last request: its handler, the text it returned and
                \* whether it wrote a line to the log
    thr,        \* request-handler threads in flight (concurrent specification)
    forecasts,  \* app.config["monthly_sales_forecasts"]: beer type -> forecast
    plan,       \* the report plan_production returned for the state as it
                \* is: NoPlan after any other request and after time passed
    savefile,   \* the pickle file savefile_program_state.pickle
    detached    \* the Inventory objects that batches hold and that are not
                \* the object app.config["inventory"] names: handle -> counts

vars ==
    <<batches, inventory, orders, now, resp, thr, forecasts, plan, savefile,
      detached>>

(***************************************************************************)
(* Bounds of the model.                                                    *)
(***************************************************************************)
MaxCredits == 1
MaxNow == 1

BatchIds == {"b1", "b2"}
BatchKinds == {<<"dunkers", 600>>, <<"pilsner", 900>>}
InvoiceNumbers == {"i1", "i2"}
RecipeInputs == {"dunkers", "pilsner"}
QuantityInputs == {600, 1800}
TankInputs == {"not applicable", "albert", "gertrude", "r2d2"}
ThreadIds == {"t1", "t2"}

(***************************************************************************)
(* Tanks                                                                   *)
(***************************************************************************)
Unset == -1

TankNames ==
    {"albert", "brigadier", "camilla", "dylon", "emily", "florence",
     "gertrude", "harry", "r2d2"}

Tanks ==
    [t \in TankNames |->
        CASE t \in {"albert", "camilla", "emily"} ->
                [capability |-> {"ferm", "cond"}, volume |-> 1000]
          [] t \in {"brigadier", "dylon", "florence"} ->
                [capability |-> {"ferm", "cond"}, volume |-> 800]
          [] t \in {"gertrude", "harry"} ->
                [capability |-> {"cond"}, volume |-> 680]
          [] t = "r2d2" ->
                [capability |-> {"ferm"}, volume |-> 800]]

\* Tanks.get_tank_value: an unknown name gives a tank with no capability
\* and no volume.
get_tank_value(tank_name) ==
    IF tank_name \in TankNames
    THEN Tanks[tank_name]
    ELSE [capability |-> {""}, volume |-> 0]

get_tank_names == TankNames

(***************************************************************************)
(* Inventory                                                               *)
(***************************************************************************)
BeerTypes == {"dunkers", "pilsner", "red_helles"}

InventoryInit == [t \in BeerTypes |-> 0]

\* Inventory.get_inv_items_quantity: the count of an unknown item is a
\* fresh {"num": 0} that no one else holds.
get_inv_items_quantity(inv, inv_item_name) ==
    IF inv_item_name \in BeerTypes THEN inv[inv_item_name] ELSE 0

(***************************************************************************)
(* Batch                                                                   *)
(***************************************************************************)
Phases == {"hot brewing", "ferm", "cond", "bottling", "finished"}

\* The Inventory object app.config["inventory"] names, as a batch holds it.
AppInventory == 0

\* Batch.__init__; handle["inventory"] is the Inventory object the batch
\* keeps for its bottles (line 218).
NewBatch(batch_id, beer_type, volume, handle) ==
    [id |-> batch_id,
     inventory |-> handle.inventory,
     beer_type |-> beer_type,
     volume |-> volume,
     num_bottles_to_inv |-> Unset,
     bottles_put_in_inventory |-> FALSE,
     phase_current |-> "",
     phase_current_tank |-> "",
     phase_last_completed |-> "",
     time_start |-> [k \in 1..4 |-> Unset],
     time_end |-> [k \in 1..4 |-> Unset]]

\* Faulty variant: bottling takes one minute per litre.
duration_phase_one_per_litre(b, k) ==
    CASE k = 1 -> 5 * 60
      [] k = 2 -> 672 * 60
      [] k = 3 -> 336 * 60
      [] k = 4 -> b.volume

\* duration_phase1..4 of Batch.__init__, in minutes: 5 h, 672 h, 336 h and
\* (1 / 60) * volume * 2 hours.
duration_phase(b, k) ==
    CASE k = 1 -> 5 * 60
      [] k = 2 -> 672 * 60
      [] k = 3 -> 336 * 60
      [] k = 4 -> b.volume * 2

\* Faulty variant: the branches of pilsner and red_helles are missing.
AddToInventory_dunkers_only(inv, beer_type, n) ==
    IF beer_type = "dunkers"
    THEN [inv EXCEPT ![beer_type] = @ + n]
    ELSE inv

\* Lines 279-284: inventory.<beer_type>["num"] += n for the three beer types.
AddToInventory(inv, beer_type, n) ==
    IF beer_type \in BeerTypes
    THEN [inv EXCEPT ![beer_type] = @ + n]
    ELSE inv

\* The test of line 273.
NotYetPut(b) == ~b.bottles_put_in_inventory

\* Faulty variant: one bottle per litre.
put_bottles_in_inventory_one_per_litre(b, inv) ==
    IF NotYetPut(b)
    THEN [batch |-> [b EXCEPT !.bottles_put_in_inventory = TRUE,
                              !.num_bottles_to_inv = b.volume],
          inv |-> AddToInventory(inv, b.beer_type, b.volume)]
    ELSE [batch |-> b, inv |-> inv]

\* Faulty variant: the flag bottles_put_in_inventory is not set.
put_bottles_in_inventory_flag_unset(b, inv) ==
    IF NotYetPut(b)
    THEN [batch |-> [b EXCEPT !.num_bottles_to_inv = b.volume * 2],
          inv |-> AddToInventory(inv, b.beer_type, b.volume * 2)]
    ELSE [batch |-> b, inv |-> inv]

\* Batch.put_bottles_in_inventory: the batch and the inventory afterwards.
put_bottles_in_inventory(b, inv) ==
    IF NotYetPut(b)
    THEN [batch |-> [b EXCEPT !.bottles_put_in_inventory = TRUE,
                              !.num_bottles_to_inv = b.volume * 2],
          inv |-> AddToInventory(inv, b.beer_type, b.volume * 2)]
    ELSE [batch |-> b, inv |-> inv]

\* Faulty variant: the last completed phase is left as it was.
StartPhase_keeps_last(b, k, t, last) ==
    [b EXCEPT !.time_start[k] = t,
              !.time_end[k] = t + duration_phase(b, k)]

\* One phase slot of set_phase_start_end_datetimes.
StartPhase(b, k, t, last) ==
    [b EXCEPT !.time_start[k] = t,
              !.time_end[k] = t + duration_phase(b, k),
              !.phase_last_completed = last]

\* Faulty variant: a finished batch keeps the last completed phase it had.
set_phase_start_end_datetimes_finished_keeps_last(b, inv, t) ==
    CASE b.phase_current = "hot brewing" ->
            [batch |-> StartPhase(b, 1, t, ""), inv |-> inv]
      [] b.phase_current = "ferm" ->
            [batch |-> StartPhase(b, 2, t, "hot brewing"), inv |-> inv]
      [] b.phase_current = "cond" ->
            [batch |-> StartPhase(b, 3, t, "ferm"), inv |-> inv]
      [] b.phase_current = "bottling" ->
            [batch |-> StartPhase(b, 4, t, "cond"), inv |-> inv]
      [] b.phase_current = "finished" ->
            put_bottles_in_inventory(b, inv)
      [] OTHER -> [batch |-> b, inv |-> inv]

\* Batch.set_phase_start_end_datetimes, with t the value of datetime.now().
set_phase_start_end_datetimes(b, inv, t) ==
    CASE b.phase_current = "hot brewing" ->
            [batch |-> StartPhase(b, 1, t, ""), inv |-> inv]
      [] b.phase_current = "ferm" ->
            [batch |-> StartPhase(b, 2, t, "hot brewing"), inv |-> inv]
      [] b.phase_current = "cond" ->
            [batch |-> StartPhase(b, 3, t, "ferm"), inv |-> inv]
      [] b.phase_current = "bottling" ->
            [batch |-> StartPhase(b, 4, t, "cond"), inv |-> inv]
      [] b.phase_current = "finished" ->
            put_bottles_in_inventory(
                [b EXCEPT !.phase_last_completed = "bottling"], inv)
      [] OTHER -> [batch |-> b, inv |-> inv]

(***************************************************************************)
(* Request handlers, one request at a time                                 *)
(***************************************************************************)
Idle == [pc |-> "idle", id |-> "", phase |-> "", tank |-> "", num |-> 0]

\* No report of plan_production for the state as it is.
NoPlan == [kind |-> "none"]

\* No pickle file has been written.
NoFile == [saved |-> FALSE]

\* What a request handler leaves behind: the text it returns ("page" is the
\* handler's ordinary page), the tanks the text lists and whether it logged
\* a change.
Response(handler, text, logged) ==
    [handler |-> handler, text |-> text, tanks |-> {}, logged |-> logged]

\* The Inventory object behind a batch's handle.
held_inventory(inv, det, handle) ==
    IF handle = AppInventory THEN inv ELSE det[handle]

NoThreads == thr = [t \in ThreadIds |-> Idle]

\* Faulty variant: the id is not looked up, an existing batch is replaced.
HasBatch_unchecked(bs, id) == FALSE

\* Line 647: batches.get(batch_id_input) is not None.
HasBatch(bs, id) == id \in DOMAIN bs

\* add_delete_batch with id_input, volume_input and beer_type_input.
AddBatch(id, beer_type, volume) ==
    /\ NoThreads
    /\ IF ~HasBatch(batches, id)
       THEN /\ batches' = [i \in DOMAIN batches \cup {id} |->
                             IF i = id
                             THEN NewBatch(id, beer_type, volume,
                                           [inventory |-> AppInventory])
                             ELSE batches[i]]
            /\ resp' = Response("add_delete_batch", "page", TRUE)
       ELSE /\ UNCHANGED batches
            /\ resp' = Response("add_delete_batch", "page", FALSE)
    /\ UNCHANGED <<inventory, orders, now, thr, forecasts, savefile, detached>>
    /\ plan' = NoPlan

\* Faulty variant: a batch that is in a tank is not deleted.
DeleteBatch_keeps_tank_holders(id) ==
    /\ NoThreads
    /\ batches' =
          [i \in {j \in DOMAIN batches :
                     j # id \/ batches[j].phase_current_tank \in TankNames}
              |-> batches[i]]
    /\ resp' = Response("add_delete_batch", "page",
                        id \in DOMAIN batches /\ id \notin DOMAIN batches')
    /\ UNCHANGED <<inventory, orders, now, thr, forecasts, savefile, detached>>
    /\ plan' = NoPlan

\* add_delete_batch with delete_batch_input.
DeleteBatch(id) ==
    /\ NoThreads
    /\ batches' = [i \in DOMAIN batches \ {id} |-> batches[i]]
    /\ resp' = Response("add_delete_batch", "page", id \in DOMAIN batches)
    /\ UNCHANGED <<inventory, orders, now, thr, forecasts, savefile, detached>>
    /\ plan' = NoPlan

\* Lines 758-764: the tanks of all batches whose tank is not "".
used_tanks(bs) ==
    {bs[i].phase_current_tank : i \in DOMAIN bs} \ {""}

\* Faulty variant: every tank of the catalog counts as free.
available_tanks_all_free(bs, id) ==
    get_tank_names \cup ({bs[id].phase_current_tank} \ {""})

\* Faulty variant: the requesting batch's own tank is not added.
available_tanks_without_own(bs, id) ==
    get_tank_names \ used_tanks(bs)

\* Lines 765-774: the free tanks, plus the requesting batch's own tank.
available_tanks(bs, id) ==
    (get_tank_names \ used_tanks(bs))
        \cup ({bs[id].phase_current_tank} \ {""})

\* Faulty variant: the capability of the tank is not looked at.
TankFits_volume_only(b, phase_input, tank_input) ==
    get_tank_value(tank_input).volume >= b.volume

\* Faulty variant: the volume of the tank is not looked at.
TankFits_capability_only(b, phase_input, tank_input) ==
    phase_input \in get_tank_value(tank_input).capability

\* Lines 782-784: the tank has the capability and the volume for the batch.
TankFits(b, phase_input, tank_input) ==
    /\ phase_input \in get_tank_value(tank_input).capability
    /\ get_tank_value(tank_input).volume >= b.volume

\* Faulty variant: a finished batch may change its phase too.
NotFinished_unchecked(b) == TRUE

\* Line 747: the batch may still change its phase.
NotFinished(b) == b.phase_current # "finished"

\* Faulty variant: the tank input is not looked at.
NoTankPhase_any_tank(phase_input, tank_input) ==
    phase_input \in {"hot brewing", "bottling", "finished"}

\* Lines 751-752: a phase without a tank.
NoTankPhase(phase_input, tank_input) ==
    /\ phase_input \in {"hot brewing", "bottling", "finished"}
    /\ tank_input = "not applicable"

\* Lines 756-757: a phase in a tank.
TankPhase(phase_input, tank_input) ==
    /\ phase_input \in {"ferm", "cond"}
    /\ tank_input # "not applicable"

\* Lines 749-798: "change", or the message the handler returns instead.
Decide(bs, id, phase_input, tank_input) ==
    IF NoTankPhase(phase_input, tank_input) THEN "change"
    ELSE IF TankPhase(phase_input, tank_input)
    THEN IF tank_input \notin available_tanks(bs, id)
         THEN "select available tank"
         ELSE IF TankFits(bs[id], phase_input, tank_input)
              THEN "change"
              ELSE "select right tank"
    ELSE "select right tank"

\* Faulty variant: a batch that moves to a phase without a tank keeps the
\* tank it had.
Changed_keeps_tank(b, inv, phase_input, tank_input, t) ==
    set_phase_start_end_datetimes(
        [b EXCEPT !.phase_current = phase_input,
                  !.phase_current_tank =
                      IF tank_input = "not applicable" THEN @
                      ELSE tank_input], inv, t)

\* Lines 790-792.
Changed(b, inv, phase_input, tank_input, t) ==
    set_phase_start_end_datetimes(
        [b EXCEPT !.phase_current = phase_input,
                  !.phase_current_tank = tank_input], inv, t)

\* Lines 777-779 and 798: the message of a request that is not accepted;
\* only "Please select an available tank" lists available_tanks.
Refusal(bs, id, d) ==
    [Response("change_batchs_phase", d, FALSE) EXCEPT
        !.tanks = IF d = "select available tank"
                  THEN available_tanks(bs, id) ELSE {}]

\* change_batchs_phase with id_input, phase_input and tank_input.  The
\* bottles of a batch that finishes go to the Inventory object the batch
\* holds.
ChangePhase(id, phase_input, tank_input) ==
    /\ NoThreads
    /\ IF id \notin DOMAIN batches
       THEN \* batches[id_input] raises KeyError
            /\ resp' = Response("change_batchs_phase", "error 500", FALSE)
            /\ UNCHANGED <<batches, inventory, detached>>
       ELSE IF ~NotFinished(batches[id])
       THEN /\ resp' = Response("change_batchs_phase", "page", FALSE)
            /\ UNCHANGED <<batches, inventory, detached>>
       ELSE LET d == Decide(batches, id, phase_input, tank_input)
                handle == batches[id].inventory
                r == Changed(batches[id],
                             held_inventory(inventory, detached, handle),
                             phase_input, tank_input, now)
            IN IF d = "change"
               THEN /\ batches' = [batches EXCEPT ![id] = r.batch]
                    /\ IF handle = AppInventory
                       THEN inventory' = r.inv /\ UNCHANGED detached
                       ELSE /\ detached' =
                                  [detached EXCEPT ![handle] = r.inv]
                            /\ UNCHANGED inventory
                    /\ resp' = Response("change_batchs_phase", "page", TRUE)
               ELSE /\ resp' = Refusal(batches, id, d)
                    /\ UNCHANGED <<batches, inventory, detached>>
    /\ UNCHANGED <<orders, now, thr, forecasts, savefile>>
    /\ plan' = NoPlan

\* Faulty variant: the invoice number is not looked up, an existing order is
\* replaced.
HasOrder_unchecked(os, invoice) == FALSE

\* Line 922: orders.get(invoice_num_input) is not None.
HasOrder(os, invoice) == invoice \in DOMAIN os

\* register_dispatch_delete_order with invoice_number_input.
RegisterOrder(invoice, recipe, quantity) ==
    /\ NoThreads
    /\ IF ~HasOrder(orders, invoice)
       THEN /\ orders' = [i \in DOMAIN orders \cup {invoice} |->
                            IF i = invoice
                            THEN [recipe |-> recipe,
                                  quantity_ordered |-> quantity,
                                  dispatched |-> ""]
                            ELSE orders[i]]
            /\ resp' = Response("register", "page", TRUE)
       ELSE /\ UNCHANGED orders
            /\ resp' = Response("register", "page", FALSE)
    /\ UNCHANGED <<batches, inventory, now, thr, forecasts, savefile, detached>>
    /\ plan' = NoPlan

\* Faulty variant: the bottles are taken from the dunkers, whatever the
\* recipe of the order.
Debit_dunkers(inv, recipe, quantity_ordered) ==
    [inv EXCEPT !["dunkers"] = @ - quantity_ordered]

\* Line 952: inventory_item_quantity["num"] -= quantity_ordered, on the
\* count get_inv_items_quantity returned.
Debit(inv, recipe, quantity_ordered) ==
    IF recipe \in BeerTypes
    THEN [inv EXCEPT ![recipe] = @ - quantity_ordered]
    ELSE inv

\* Faulty variant: the stock is not looked at.
EnoughStock_unchecked(num, quantity_ordered) == TRUE

\* Line 950: enough bottles of the beer type are in the inventory.
EnoughStock(num, quantity_ordered) == num >= quantity_ordered

\* Faulty variant: the status of the order is not looked at.
AlreadyDispatched_unchecked(o) == FALSE

\* Line 942: the order has been dispatched before.
AlreadyDispatched(o) == o.dispatched = "dispatched"

\* register_dispatch_delete_order with dispatch_order.
DispatchOrder(invoice) ==
    /\ NoThreads
    /\ IF invoice \notin DOMAIN orders
       THEN /\ resp' = Response("dispatch", "page", FALSE)
            /\ UNCHANGED <<orders, inventory>>
       ELSE IF AlreadyDispatched(orders[invoice])
       THEN /\ resp' = Response("dispatch", "already dispatched", FALSE)
            /\ UNCHANGED <<orders, inventory>>
       ELSE LET o == orders[invoice]
                num == get_inv_items_quantity(inventory, o.recipe)
            IN IF EnoughStock(num, o.quantity_ordered)
               THEN /\ inventory' = Debit(inventory, o.recipe,
                                          o.quantity_ordered)
                    /\ orders' =
                        [orders EXCEPT ![invoice].dispatched = "dispatched"]
                    /\ resp' = Response("dispatch", "page", TRUE)
               ELSE /\ resp' = Response("dispatch", "not enough bottles",
                                        FALSE)
                    /\ UNCHANGED <<orders, inventory>>
    /\ UNCHANGED <<batches, now, thr, forecasts, savefile, detached>>
    /\ plan' = NoPlan

\* Faulty variant: the bottles of a dispatched order that is deleted go back
\* to the inventory.
DeleteOrder_returns_bottles(invoice) ==
    /\ NoThreads
    /\ orders' = [i \in DOMAIN orders \ {invoice} |-> orders[i]]
    /\ resp' = Response("delete order", "page", invoice \in DOMAIN orders)
    /\ inventory' =
          IF invoice \in DOMAIN orders /\ AlreadyDispatched(orders[invoice])
          THEN AddToInventory(inventory, orders[invoice].recipe,
                              orders[invoice].quantity_ordered)
          ELSE inventory
    /\ UNCHANGED <<batches, now, thr, forecasts, savefile, detached>>
    /\ plan' = NoPlan

\* register_dispatch_delete_order with delete_order.
DeleteOrder(invoice) ==
    /\ NoThreads
    /\ orders' = [i \in DOMAIN orders \ {invoice} |-> orders[i]]
    /\ resp' = Response("delete order", "page", invoice \in DOMAIN orders)
    /\ UNCHANGED <<batches, inventory, now, thr, forecasts, savefile, detached>>
    /\ plan' = NoPlan

\* plan_production, lines 1247-1281: the time at which the planner expects
\* the batch to be finished, Unset for a batch without an end time.  The
\* planner looks at the end times of the phases, bottling first.
projected_finish(b) ==
    IF b.time_end[4] # Unset THEN b.time_end[4]
    ELSE IF b.time_end[3] # Unset
    THEN b.time_end[3] + b.volume * 2
    ELSE IF b.time_end[2] # Unset
    THEN b.time_end[2] + 336 * 60 + b.volume * 2
    ELSE IF b.time_end[1] # Unset
    THEN b.time_end[1] + 672 * 60 + 336 * 60 + b.volume * 2
    ELSE Unset

(***************************************************************************)
(* The calendar.  The clock counts the minutes since 00:00 of the day      *)
(* Epoch; datetime.now() is the date and time of that minute.              *)
(***************************************************************************)
Epoch == [year |-> 2023, month |-> 1, day |-> 1]

MinutesPerDay == 24 * 60

\* calendar.isleap, which monthrange uses for February.
isleap(year) ==
    year % 4 = 0 /\ (year % 100 # 0 \/ year % 400 = 0)

\* monthrange(year, month)[1]: the number of days of the month.
monthrange(year, month) ==
    CASE month \in {4, 6, 9, 11} -> 30
      [] month = 2 -> IF isleap(year) THEN 29 ELSE 28
      [] OTHER -> 31

RECURSIVE DateFrom(_, _, _)
\* The date that lies the given number of days after the first day of the
\* month.
DateFrom(year, month, days) ==
    IF days < monthrange(year, month)
    THEN [year |-> year, month |-> month, day |-> days + 1]
    ELSE IF month = 12
    THEN DateFrom(year + 1, 1, days - monthrange(year, month))
    ELSE DateFrom(year, month + 1, days - monthrange(year, month))

\* The date of a datetime: its .year, .month and .day.
DateOf(t) == DateFrom(Epoch.year, Epoch.month, t \div MinutesPerDay)

\* datetime + timedelta(days=n).
PlusDays(t, n) == t + n * MinutesPerDay

(***************************************************************************)
(* plan_production                                                         *)
(***************************************************************************)
Months == <<"this_month", "next_month", "third_month">>

\* Faulty variant: the month number after 12 is 13.
incre_month_no_wrap(t, index) ==
    DateOf(t).month + (index - 1)

\* Lines 1284-1305: the month numbers of the three buckets; incre_month is
\* set to 1 when it reaches 13.
incre_month(t, index) ==
    LET m == DateOf(t).month + (index - 1)
    IN IF m >= 13 THEN m - 12 ELSE m

\* Lines 1242-1245 and 1287-1301: the bottles a batch adds to the bucket
\* with the given index; the month of the batch's end time is compared with
\* the month number of the bucket.
bucket_bottles(b, index, t) ==
    IF b.bottles_put_in_inventory THEN 0
    ELSE IF projected_finish(b) = Unset THEN 0
    ELSE IF DateOf(projected_finish(b)).month = incre_month(t, index)
    THEN b.volume * 2
    ELSE 0

RECURSIVE batches_bottles(_, _, _, _, _)
\* Lines 1242-1305, for one beer type and one bucket: the sum over the
\* batches S.
batches_bottles(bs, S, beer_type, index, t) ==
    IF S = {} THEN 0
    ELSE LET i == CHOOSE x \in S : TRUE
         IN (IF bs[i].beer_type = beer_type
             THEN bucket_bottles(bs[i], index, t) ELSE 0)
                + batches_bottles(bs, S \ {i}, beer_type, index, t)

\* Faulty variant: the inventory quantities are added to every bucket.
three_month_end_inv_every_month(bs, inv, t) ==
    [beer_type \in BeerTypes |->
        [index \in 1..3 |->
            batches_bottles(bs, DOMAIN bs, beer_type, index, t)
                + get_inv_items_quantity(inv, beer_type)]]

\* Lines 1235-1311: three_month_end_inv, with the inventory quantities added
\* to the bucket of this month.
three_month_end_inv(bs, inv, t) ==
    [beer_type \in BeerTypes |->
        [index \in 1..3 |->
            batches_bottles(bs, DOMAIN bs, beer_type, index, t)
                + (IF index = 1
                   THEN get_inv_items_quantity(inv, beer_type) ELSE 0)]]

\* Lines 1319-1350: the date-indices dt1st_month, dt2nd_month and
\* dt3rd_month, each a year and a month (the day is 1).
forecast_keys(t) ==
    LET current_datetime == t
        current == DateOf(current_datetime)
        next_datetime ==
            PlusDays(current_datetime, monthrange(current.year, current.month))
        next == DateOf(next_datetime)
        third_datetime ==
            PlusDays(next_datetime, monthrange(next.year, next.month))
        third == DateOf(third_datetime)
    IN <<(<<current.year, current.month>>),
         (<<next.year, next.month>>),
         (<<third.year, third.month>>)>>

\* Lines 1353-1355 raise KeyError unless every stored forecast has a value
\* for the three date-indices.
HasKeys(fc, t) ==
    LET keys == forecast_keys(t)
    IN \A beer_type \in DOMAIN fc, index \in 1..3 :
          keys[index] \in DOMAIN fc[beer_type]

\* Lines 1313-1361: three_month_forecast; a beer type without a stored
\* forecast keeps 0.
three_month_forecast(fc, t) ==
    LET keys == forecast_keys(t)
    IN [beer_type \in BeerTypes |->
          [index \in 1..3 |->
              IF beer_type \in DOMAIN fc
              THEN fc[beer_type][keys[index]]
              ELSE 0]]

\* Lines 1363-1376: diff_3months_forecast_actual.
diff_3months_forecast_actual(end_inv, forecast) ==
    [beer_type \in BeerTypes |->
        (end_inv[beer_type][1] + end_inv[beer_type][2]
            + end_inv[beer_type][3])
        - (forecast[beer_type][1] + forecast[beer_type][2]
            + forecast[beer_type][3])]

\* The order of the keys of diff_3months_forecast_actual (line 1363).
BeerOrder == <<"dunkers", "pilsner", "red_helles">>

RECURSIVE min_from_last(_, _, _)
\* Faulty variant: a key replaces the key kept if its value is as low.
min_from_last(diff, i, best) ==
    IF i > Len(BeerOrder) THEN best
    ELSE min_from_last(diff, i + 1,
                       IF diff[BeerOrder[i]] <= diff[best]
                       THEN BeerOrder[i] ELSE best)

RECURSIVE min_from(_, _, _)
\* min(diff, key=...) from position i on, with best the key kept so far: a
\* key replaces it only if its value is lower.
min_from(diff, i, best) ==
    IF i > Len(BeerOrder) THEN best
    ELSE min_from(diff, i + 1,
                  IF diff[BeerOrder[i]] < diff[best]
                  THEN BeerOrder[i] ELSE best)

\* Lines 1381-1382.
produce_beer(diff) == min_from(diff, 2, BeerOrder[1])

\* dir(self) lists the names sorted.
TankOrder ==
    <<"albert", "brigadier", "camilla", "dylon", "emily", "florence",
      "gertrude", "harry", "r2d2">>

\* Faulty variant: the tanks in use are not left out.
capable_tank_any(bs, tank_name) ==
    "ferm" \in get_tank_value(tank_name).capability

\* Lines 1383-1399: the tank is held by no batch and can ferment.
capable_tank(bs, tank_name) ==
    /\ tank_name \notin used_tanks(bs)
    /\ "ferm" \in get_tank_value(tank_name).capability

NoTank == "no tank available"

RECURSIVE max_from(_, _, _)
\* max(capable_tanks, key=...) from position i of the tank names on, with
\* best the tank kept so far (NoTank for none): a tank replaces it only if
\* its volume is higher.
max_from(bs, i, best) ==
    IF i > Len(TankOrder) THEN best
    ELSE max_from(bs, i + 1,
            IF /\ capable_tank(bs, TankOrder[i])
               /\ \/ best = NoTank
                  \/ get_tank_value(TankOrder[i]).volume
                        > get_tank_value(best).volume
            THEN TankOrder[i] ELSE best)

\* Lines 1400-1406.
use_tank(bs) == max_from(bs, 1, NoTank)

\* The report of plan_production for the state given.
Report(bs, inv, fc, t) ==
    LET end_inv == three_month_end_inv(bs, inv, t)
        forecast == three_month_forecast(fc, t)
    IN [kind |-> "recommendation",
        produce_beer |->
            produce_beer(diff_3months_forecast_actual(end_inv, forecast)),
        use_tank |-> use_tank(bs),
        end_inv |-> end_inv,
        forecast |-> forecast]

\* Faulty variant: the planner runs without a forecast.
NoForecast_unchecked(fc) == FALSE

\* Line 1227: not monthly_forecasts.
NoForecast(fc) == DOMAIN fc = {}

\* Faulty variant: the forecasts are cleared once they were used.
PlanProduction_clears_forecasts ==
    /\ NoThreads
    /\ IF NoForecast(forecasts)
       THEN /\ resp' = Response("plan_production", "no prediction", FALSE)
            /\ plan' = [kind |-> "not ready"]
       ELSE IF ~HasKeys(forecasts, now)
       THEN /\ resp' = Response("plan_production", "error 500", FALSE)
            /\ plan' = [kind |-> "error"]
       ELSE /\ resp' = Response("plan_production", "page", FALSE)
            /\ plan' = Report(batches, inventory, forecasts, now)
    /\ forecasts' = <<>>
    /\ UNCHANGED <<batches, inventory, orders, now, thr, savefile, detached>>

\* plan_production.
PlanProduction ==
    /\ NoThreads
    /\ IF NoForecast(forecasts)
       THEN /\ resp' = Response("plan_production", "no prediction", FALSE)
            /\ plan' = [kind |-> "not ready"]
       ELSE IF ~HasKeys(forecasts, now)
       THEN \* predicted_mean[...] raises KeyError
            /\ resp' = Response("plan_production", "error 500", FALSE)
            /\ plan' = [kind |-> "error"]
       ELSE /\ resp' = Response("plan_production", "page", FALSE)
            /\ plan' = Report(batches, inventory, forecasts, now)
    /\ UNCHANGED <<batches, inventory, orders, now, thr, forecasts, savefile, detached>>

\* predict_sales, lines 1115-1139: the forecasts are cleared and the
\* forecasts fitted for the beer types are stored; fitting stops at the
\* first beer type the model cannot be fitted for.
PredictSales(fc) ==
    /\ NoThreads
    /\ forecasts' = fc
    /\ resp' = Response("predict_sales",
                        IF DOMAIN fc = BeerTypes THEN "page"
                        ELSE "model can not be fitted", FALSE)
    /\ UNCHANGED <<batches, inventory, orders, now, thr, savefile, detached>>
    /\ plan' = NoPlan

(***************************************************************************)
(* Forecasts: model.get_forecast(steps=12) gives a predicted mean for the  *)
(* first day of each of twelve months in a row.                            *)
(***************************************************************************)
MonthIndex(key) == key[1] * 12 + key[2]

\* The predicted means of twelve months from the month first on.
predicted_mean(first, values) ==
    [key \in {k \in (first[1]..(first[1] + 1)) \X (1..12) :
                 MonthIndex(k) - MonthIndex(first) \in 0..11}
        |-> values[MonthIndex(key) - MonthIndex(first) + 1]]

\* The forecasts of the three beer types from the month first on, with the
\* predicted means of the first three months given and those of the nine
\* months after them like the third.
Forecasts(first, dunkers, pilsner, red_helles) ==
    LET twelve(v) == [i \in 1..12 |-> IF i <= 3 THEN v[i] ELSE v[3]]
    IN [beer_type \in BeerTypes |->
          predicted_mean(first,
              CASE beer_type = "dunkers" -> twelve(dunkers)
                [] beer_type = "pilsner" -> twelve(pilsner)
                [] beer_type = "red_helles" -> twelve(red_helles))]

\* Only the forecast of the dunkers is stored: the model could not be fitted
\* for the pilsner.
OnlyDunkers(fc) == [beer_type \in {"dunkers"} |-> fc[beer_type]]

(***************************************************************************)
(* The program state in the pickle file.  pickle keeps the references      *)
(* among the objects it writes: a batch that holds the Inventory object    *)
(* stored under "inventory" holds, after pickle.load, the new Inventory    *)
(* object found under "inventory".                                         *)
(***************************************************************************)
\* save_program_state, lines 539-552: program_state as pickle.dump writes
\* it, with the Inventory objects the batches hold next to the one of
\* app.config.
pickle_dump(bs, os, inv, det, fc) ==
    [saved |-> TRUE,
     batches |-> bs,
     orders |-> os,
     inventory |-> inv,
     held |-> [h \in {bs[i].inventory : i \in DOMAIN bs} \ {AppInventory}
                 |-> det[h]],
     forecasts |-> fc]

\* A handle that names none of the objects of the file.
NewHandle(file) ==
    CHOOSE h \in 1..(Cardinality(DOMAIN file.held) + 1) :
        h \notin DOMAIN file.held

\* Faulty variant: the Inventory object the batches hold is read apart from
\* the one stored under "inventory", so that the two are different objects
\* with the same counts.
pickle_load_inventory_apart(file) ==
    [batches |->
        [i \in DOMAIN file.batches |->
            IF file.batches[i].inventory = AppInventory
            THEN [file.batches[i] EXCEPT !.inventory = NewHandle(file)]
            ELSE file.batches[i]],
     orders |-> file.orders,
     inventory |-> file.inventory,
     detached |->
        [h \in DOMAIN file.held \cup {NewHandle(file)} |->
            IF h \in DOMAIN file.held THEN file.held[h]
            ELSE file.inventory],
     forecasts |-> file.forecasts]

\* load_program_state, lines 484-496: the objects pickle.load creates, as
\* app.config holds them once program_state["inventory"] is the object that
\* app.config["inventory"] names.
pickle_load(file) ==
    [batches |-> file.batches,
     orders |-> file.orders,
     inventory |-> file.inventory,
     detached |-> file.held,
     forecasts |-> file.forecasts]

\* save_program_state with save_button; denied: the file may not be
\* written (PermissionError).
SaveState(denied) ==
    /\ NoThreads
    /\ IF denied
       THEN /\ resp' = Response("save_program_state", "not saved", TRUE)
            /\ UNCHANGED savefile
       ELSE /\ savefile' = pickle_dump(batches, orders, inventory, detached,
                                       forecasts)
            /\ resp' = Response("save_program_state", "saved", TRUE)
    /\ UNCHANGED <<batches, inventory, orders, now, thr, forecasts, detached>>
    /\ plan' = NoPlan

\* Faulty variant: the orders of the file are not put into app.config.
LoadState_keeps_orders(denied) ==
    /\ NoThreads
    /\ IF savefile = NoFile \/ denied
       THEN /\ resp' = Response("load_program_state", "not loaded", TRUE)
            /\ UNCHANGED <<batches, inventory, orders, forecasts, detached>>
       ELSE LET program_state == pickle_load(savefile)
            IN /\ batches' = program_state.batches
               /\ UNCHANGED orders
               /\ inventory' = program_state.inventory
               /\ detached' = program_state.detached
               /\ forecasts' = program_state.forecasts
               /\ resp' = Response("load_program_state", "loaded", TRUE)
    /\ UNCHANGED <<now, thr, savefile>>
    /\ plan' = NoPlan

\* load_program_state with load_button; the file is missing
\* (FileNotFoundError) or, with denied, may not be read (PermissionError).
LoadState(denied) ==
    /\ NoThreads
    /\ IF savefile = NoFile \/ denied
       THEN /\ resp' = Response("load_program_state", "not loaded", TRUE)
            /\ UNCHANGED <<batches, inventory, orders, forecasts, detached>>
       ELSE LET program_state == pickle_load(savefile)
            IN /\ batches' = program_state.batches
               /\ orders' = program_state.orders
               /\ inventory' = program_state.inventory
               /\ detached' = program_state.detached
               /\ forecasts' = program_state.forecasts
               /\ resp' = Response("load_program_state", "loaded", TRUE)
    /\ UNCHANGED <<now, thr, savefile>>
    /\ plan' = NoPlan

\* Time passes between two requests.
Tick ==
    /\ NoThreads
    /\ now < MaxNow
    /\ now' = now + 1
    /\ UNCHANGED <<batches, inventory, orders, resp, thr, forecasts, savefile, detached>>
    /\ plan' = NoPlan

\* Time passes until the next request comes, at the instant t.
WaitUntil(t) ==
    /\ NoThreads
    /\ t > now
    /\ now' = t
    /\ UNCHANGED <<batches, inventory, orders, resp, thr, forecasts, savefile, detached>>
    /\ plan' = NoPlan

Init ==
    /\ batches = <<>>
    /\ inventory = InventoryInit
    /\ orders = <<>>
    /\ now = 0
    /\ resp = Response("", "page", FALSE)
    /\ thr = [t \in ThreadIds |-> Idle]
    /\ forecasts = <<>>
    /\ plan = NoPlan
    /\ savefile = NoFile
    /\ detached = <<>>

\* The bottles in the ledger.
LedgerTotal ==
    inventory["dunkers"] + inventory["pilsner"] + inventory["red_helles"]

\* A request that would credit the ledger is issued only while the ledger
\* holds fewer bottles than MaxCredits batches of 600 litres give.
CreditRoom(id, phase_input) ==
    (/\ id \in DOMAIN batches
     /\ NotFinished(batches[id])
     /\ phase_input = "finished")
        => LedgerTotal < MaxCredits * 2 * 600

\* The batch commands, with inputs drawn from the given sets.
BatchCommands(ids, kinds, phases, tanks) ==
    \/ \E id \in ids, k \in kinds : AddBatch(id, k[1], k[2])
    \/ \E id \in ids : DeleteBatch(id)
    \/ \E id \in ids, p \in phases, t \in tanks :
          CreditRoom(id, p) /\ ChangePhase(id, p, t)

\* The order commands, with inputs drawn from the given sets.
OrderCommands(invoices, recipes, quantities) ==
    \/ \E i \in invoices, r \in recipes, q \in quantities :
          RegisterOrder(i, r, q)
    \/ \E i \in invoices : DispatchOrder(i)
    \/ \E i \in invoices : DeleteOrder(i)

\* Batches, tanks and the credit of finished batches: two batches, requests
\* one at a time, the clock standing still.
Next ==
    BatchCommands(BatchIds, BatchKinds, Phases, TankInputs)

Spec == Init /\ [][Next]_vars

\* Orders and the ledger, with one batch that is added, finished and deleted.
NextOrders ==
    \/ BatchCommands({"b1"}, BatchKinds, {"finished"}, {"not applicable"})
    \/ OrderCommands(InvoiceNumbers, RecipeInputs, QuantityInputs)

SpecOrders == Init /\ [][NextOrders]_vars

\* One batch and a running clock.
NextTime ==
    \/ BatchCommands({"b1"}, BatchKinds, Phases,
                     {"not applicable", "albert", "gertrude", "zeppelin"})
    \/ Tick

SpecTime == Init /\ [][NextTime]_vars

\* Two batches competing for tanks, next to one order: b1 fits every tank,
\* b2 is too large for r2d2.
FramePhases == {"ferm", "cond", "finished"}
FrameTanks == {"not applicable", "albert", "r2d2"}

NextFrame ==
    \/ AddBatch("b1", "dunkers", 600)
    \/ AddBatch("b2", "pilsner", 900)
    \/ \E id \in BatchIds : DeleteBatch(id)
    \/ \E id \in BatchIds, p \in FramePhases, t \in FrameTanks :
          CreditRoom(id, p) /\ ChangePhase(id, p, t)
    \/ OrderCommands({"i1"}, {"dunkers"}, {600})

SpecFrame == Init /\ [][NextFrame]_vars

\* One batch, the clock and the planner.  The requests come at noon of
\* 25 November 2023, 25 December 2023 or 25 December 2024; the forecasts
\* stored start in November 2023 or in November 2024.
PlanStart == 328 * MinutesPerDay + 12 * 60

PlanInstants ==
    {PlanStart, PlusDays(PlanStart, 30), PlusDays(PlanStart, 396)}

PlanForecasts ==
    {Forecasts(<<2023, 11>>, <<900, 900, 900>>, <<500, 500, 500>>,
               <<100, 100, 100>>),
     Forecasts(<<2024, 11>>, <<100, 100, 100>>, <<100, 100, 100>>,
               <<100, 100, 100>>)}

InitPlan ==
    /\ batches = <<>>
    /\ inventory = InventoryInit
    /\ orders = <<>>
    /\ now = PlanStart
    /\ resp = Response("", "page", FALSE)
    /\ thr = [t \in ThreadIds |-> Idle]
    /\ forecasts = <<>>
    /\ plan = NoPlan
    /\ savefile = NoFile
    /\ detached = <<>>

NextPlan ==
    \/ BatchCommands({"b1"}, {<<"dunkers", 600>>}, Phases,
                     {"not applicable", "albert"})
    \/ RegisterOrder("i1", "dunkers", 600)
    \/ \E t \in PlanInstants : WaitUntil(t)
    \/ \E fc \in PlanForecasts : PredictSales(fc)
    \/ PlanProduction

SpecPlan == InitPlan /\ [][NextPlan]_vars

\* The planner on every day of 2023 and of 2024, a leap year, at 10:00.
KeyInstants == {d * MinutesPerDay + 10 * 60 : d \in 0..730}

KeyForecasts ==
    {Forecasts(<<2023, 1>>, <<100, 100, 100>>, <<100, 100, 100>>,
               <<100, 100, 100>>),
     Forecasts(<<2024, 1>>, <<100, 100, 100>>, <<100, 100, 100>>,
               <<100, 100, 100>>),
     OnlyDunkers(Forecasts(<<2023, 1>>, <<100, 100, 100>>,
                           <<100, 100, 100>>, <<100, 100, 100>>))}

InitKeys ==
    /\ batches = <<>>
    /\ inventory = InventoryInit
    /\ orders = <<>>
    /\ now \in KeyInstants
    /\ resp = Response("", "page", FALSE)
    /\ thr = [t \in ThreadIds |-> Idle]
    /\ forecasts = <<>>
    /\ plan = NoPlan
    /\ savefile = NoFile
    /\ detached = <<>>

NextKeys ==
    \/ \E fc \in KeyForecasts : PredictSales(fc)
    \/ PlanProduction

SpecKeys == InitKeys /\ [][NextKeys]_vars

\* The planner on ledgers of few bottles, against forecasts of few bottles:
\* 50, 30 and 20 bottles in three months, 15 bottles of each beer type, or
\* 50 bottles of dunkers alone.
LedgerCounts == {5, 10, 40}

DeficitForecasts ==
    {Forecasts(<<2023, 11>>, <<20, 20, 10>>, <<10, 10, 10>>, <<10, 5, 5>>),
     Forecasts(<<2023, 11>>, <<5, 5, 5>>, <<5, 5, 5>>, <<5, 5, 5>>),
     OnlyDunkers(Forecasts(<<2023, 11>>, <<20, 20, 10>>, <<10, 10, 10>>,
                           <<10, 5, 5>>))}

InitDeficit ==
    /\ batches = <<>>
    /\ inventory \in [BeerTypes -> LedgerCounts]
    /\ orders = <<>>
    /\ now = PlanStart
    /\ resp = Response("", "page", FALSE)
    /\ thr = [t \in ThreadIds |-> Idle]
    /\ forecasts = <<>>
    /\ plan = NoPlan
    /\ savefile = NoFile
    /\ detached = <<>>

NextDeficit ==
    \/ \E fc \in DeficitForecasts : PredictSales(fc)
    \/ PlanProduction

SpecDeficit == InitDeficit /\ [][NextDeficit]_vars

\* Seven batches, one for each tank that can ferment, and the planner.
TankBatchIds == {"b1", "b2", "b3", "b4", "b5", "b6", "b7"}

TankOf(id) ==
    CASE id = "b1" -> "albert"
      [] id = "b2" -> "brigadier"
      [] id = "b3" -> "camilla"
      [] id = "b4" -> "dylon"
      [] id = "b5" -> "emily"
      [] id = "b6" -> "florence"
      [] id = "b7" -> "r2d2"

NextPlanTanks ==
    \/ \E id \in TankBatchIds : AddBatch(id, "dunkers", 600)
    \/ \E id \in TankBatchIds : DeleteBatch(id)
    \/ \E id \in TankBatchIds : ChangePhase(id, "ferm", TankOf(id))
    \/ PredictSales(Forecasts(<<2023, 11>>, <<900, 900, 900>>,
                              <<500, 500, 500>>, <<100, 100, 100>>))
    \/ PlanProduction

SpecPlanTanks == InitPlan /\ [][NextPlanTanks]_vars

\* One batch, one order, the planner and the pickle file.
SnapshotForecasts ==
    {Forecasts(<<2023, 11>>, <<900, 900, 900>>, <<500, 500, 500>>,
               <<100, 100, 100>>)}

NextSnapshot ==
    \/ BatchCommands({"b1"}, {<<"dunkers", 600>>}, {"ferm", "finished"},
                     {"not applicable", "albert"})
    \/ OrderCommands({"i1"}, {"dunkers"}, {600})
    \/ \E fc \in SnapshotForecasts : PredictSales(fc)
    \/ PlanProduction
    \/ \E denied \in BOOLEAN : SaveState(denied)
    \/ \E denied \in BOOLEAN : LoadState(denied)

SpecSnapshot == InitPlan /\ [][NextSnapshot]_vars

\* The planner next to the requests for a tank: three batches of 600 litres,
\* each asking for one of the three tanks of 1000 litres, a fourth asking
\* for a tank of 800 litres, and a batch of 900 litres that is too large for
\* that tank.
AgreeIds == {"b1", "b2", "b3", "b4", "b5"}

AgreeVolume(id) == IF id = "b5" THEN 900 ELSE 600

AgreeTank(id) ==
    CASE id = "b1" -> "albert"
      [] id = "b2" -> "camilla"
      [] id = "b3" -> "emily"
      [] id = "b4" -> "brigadier"
      [] id = "b5" -> "brigadier"

NextAgree ==
    \/ \E id \in AgreeIds : AddBatch(id, "dunkers", AgreeVolume(id))
    \/ DeleteBatch("b1")
    \/ \E id \in AgreeIds : ChangePhase(id, "ferm", AgreeTank(id))
    \/ CreditRoom("b1", "finished")
          /\ ChangePhase("b1", "finished", "not applicable")
    \/ \E fc \in SnapshotForecasts : PredictSales(fc)
    \/ PlanProduction

SpecAgree == InitPlan /\ [][NextAgree]_vars

(***************************************************************************)
(* Request handlers as threads of the Flask server (app.run, lines         *)
(* 1497-1503): no handler takes a lock, so the statements of two requests  *)
(* in flight interleave.  A thread keeps the request's inputs and, across  *)
(* the two halves of an in-place += or -=, the number it read.             *)
(***************************************************************************)
Running(pc, id, phase, tank, num) ==
    [pc |-> pc, id |-> id, phase |-> phase, tank |-> tank, num |-> num]

At(t, pc) == thr[t].pc = pc

Goto(t, pc) == thr' = [thr EXCEPT ![t].pc = pc]

Return(t, handler, text, logged) ==
    /\ thr' = [thr EXCEPT ![t] = Idle]
    /\ resp' = Response(handler, text, logged)

\* change_batchs_phase, lines 738-747.
ChangeBegin(t, id, phase_input, tank_input) ==
    /\ At(t, "idle")
    /\ IF id \notin DOMAIN batches
       THEN /\ resp' = Response("change_batchs_phase", "error 500", FALSE)
            /\ UNCHANGED thr
       ELSE IF ~NotFinished(batches[id])
       THEN /\ resp' = Response("change_batchs_phase", "page", FALSE)
            /\ UNCHANGED thr
       ELSE /\ thr' = [thr EXCEPT ![t] =
                         Running("decide", id, phase_input, tank_input, 0)]
            /\ UNCHANGED resp
    /\ UNCHANGED <<batches, inventory, orders, now, forecasts, savefile, detached>>
    /\ plan' = NoPlan

\* change_batchs_phase, lines 749-788 and 797-798.
ChangeDecide(t) ==
    /\ At(t, "decide")
    /\ LET d == Decide(batches, thr[t].id, thr[t].phase, thr[t].tank)
       IN IF d = "change"
          THEN Goto(t, "write phase") /\ UNCHANGED resp
          ELSE /\ thr' = [thr EXCEPT ![t] = Idle]
               /\ resp' = Refusal(batches, thr[t].id, d)
    /\ UNCHANGED <<batches, inventory, orders, now, forecasts, savefile, detached>>
    /\ plan' = NoPlan

\* change_batchs_phase, line 790.
ChangeWritePhase(t) ==
    /\ At(t, "write phase")
    /\ batches' = [batches EXCEPT ![thr[t].id].phase_current = thr[t].phase]
    /\ Goto(t, "write tank")
    /\ UNCHANGED <<inventory, orders, now, resp, forecasts, savefile, detached>>
    /\ plan' = NoPlan

\* change_batchs_phase, line 791.
ChangeWriteTank(t) ==
    /\ At(t, "write tank")
    /\ batches' =
          [batches EXCEPT ![thr[t].id].phase_current_tank = thr[t].tank]
    /\ Goto(t, "set times")
    /\ UNCHANGED <<inventory, orders, now, resp, forecasts, savefile, detached>>
    /\ plan' = NoPlan

\* change_batchs_phase, lines 792-796, with set_phase_start_end_datetimes
\* up to its call of put_bottles_in_inventory.
ChangeSetTimes(t) ==
    /\ At(t, "set times")
    /\ LET b == batches[thr[t].id]
       IN IF b.phase_current = "finished"
          THEN /\ batches' = [batches EXCEPT
                    ![thr[t].id].phase_last_completed = "bottling"]
               /\ Goto(t, "put test")
               /\ UNCHANGED resp
          ELSE /\ batches' = [batches EXCEPT ![thr[t].id] =
                    set_phase_start_end_datetimes(b, inventory, now).batch]
               /\ Return(t, "change_batchs_phase", "page", TRUE)
    /\ UNCHANGED <<inventory, orders, now, forecasts, savefile, detached>>
    /\ plan' = NoPlan

\* put_bottles_in_inventory, line 273.
PutTest(t) ==
    /\ At(t, "put test")
    /\ IF NotYetPut(batches[thr[t].id])
       THEN Goto(t, "put flag") /\ UNCHANGED resp
       ELSE Return(t, "change_batchs_phase", "page", TRUE)
    /\ UNCHANGED <<batches, inventory, orders, now, forecasts, savefile, detached>>
    /\ plan' = NoPlan

\* put_bottles_in_inventory, lines 275-277.
PutFlag(t) ==
    /\ At(t, "put flag")
    /\ batches' = [batches EXCEPT
          ![thr[t].id].bottles_put_in_inventory = TRUE,
          ![thr[t].id].num_bottles_to_inv = batches[thr[t].id].volume * 2]
    /\ Goto(t, "put read")
    /\ UNCHANGED <<inventory, orders, now, resp, forecasts, savefile, detached>>
    /\ plan' = NoPlan

\* put_bottles_in_inventory, lines 279-284: the read of the += .
PutRead(t) ==
    /\ At(t, "put read")
    /\ thr' = [thr EXCEPT
          ![t].pc = "put write",
          ![t].num = get_inv_items_quantity(
                         held_inventory(inventory, detached,
                                        batches[thr[t].id].inventory),
                         batches[thr[t].id].beer_type)]
    /\ UNCHANGED <<batches, inventory, orders, now, resp, forecasts, savefile, detached>>
    /\ plan' = NoPlan

\* put_bottles_in_inventory, lines 279-284: the write of the += .
PutWrite(t) ==
    /\ At(t, "put write")
    /\ LET b == batches[thr[t].id]
           inv == held_inventory(inventory, detached, b.inventory)
           written == IF b.beer_type \in BeerTypes
                      THEN [inv EXCEPT ![b.beer_type] =
                                thr[t].num + b.num_bottles_to_inv]
                      ELSE inv
       IN IF b.inventory = AppInventory
          THEN inventory' = written /\ UNCHANGED detached
          ELSE /\ detached' = [detached EXCEPT ![b.inventory] = written]
               /\ UNCHANGED inventory
    /\ Return(t, "change_batchs_phase", "page", TRUE)
    /\ UNCHANGED <<batches, orders, now, forecasts, savefile>>
    /\ plan' = NoPlan

\* register_dispatch_delete_order, lines 940-943.
DispatchBegin(t, invoice) ==
    /\ At(t, "idle")
    /\ IF invoice \notin DOMAIN orders
       THEN /\ resp' = Response("dispatch", "page", FALSE)
            /\ UNCHANGED thr
       ELSE IF AlreadyDispatched(orders[invoice])
       THEN /\ resp' = Response("dispatch", "already dispatched", FALSE)
            /\ UNCHANGED thr
       ELSE /\ thr' = [thr EXCEPT ![t] =
                         Running("stock test", invoice, "", "", 0)]
            /\ UNCHANGED resp
    /\ UNCHANGED <<batches, inventory, orders, now, forecasts, savefile, detached>>
    /\ plan' = NoPlan

\* register_dispatch_delete_order, lines 945-950 and 957-959.
DispatchStockTest(t) ==
    /\ At(t, "stock test")
    /\ LET o == orders[thr[t].id]
       IN IF EnoughStock(get_inv_items_quantity(inventory, o.recipe),
                         o.quantity_ordered)
          THEN Goto(t, "debit read") /\ UNCHANGED resp
          ELSE Return(t, "dispatch", "not enough bottles", FALSE)
    /\ UNCHANGED <<batches, inventory, orders, now, forecasts, savefile, detached>>
    /\ plan' = NoPlan

\* register_dispatch_delete_order, line 952: the read of the -= .
DebitRead(t) ==
    /\ At(t, "debit read")
    /\ thr' = [thr EXCEPT
          ![t].pc = "debit write",
          ![t].num = get_inv_items_quantity(
                         inventory, orders[thr[t].id].recipe)]
    /\ UNCHANGED <<batches, inventory, orders, now, resp, forecasts, savefile, detached>>
    /\ plan' = NoPlan

\* register_dispatch_delete_order, line 952: the write of the -= .
DebitWrite(t) ==
    /\ At(t, "debit write")
    /\ LET o == orders[thr[t].id]
       IN inventory' =
            IF o.recipe \in BeerTypes
            THEN [inventory EXCEPT
                    ![o.recipe] = thr[t].num - o.quantity_ordered]
            ELSE inventory
    /\ Goto(t, "mark")
    /\ UNCHANGED <<batches, orders, now, resp, forecasts, savefile, detached>>
    /\ plan' = NoPlan

\* register_dispatch_delete_order, lines 953-955.
DispatchMark(t) ==
    /\ At(t, "mark")
    /\ orders' = [orders EXCEPT ![thr[t].id].dispatched = "dispatched"]
    /\ Return(t, "dispatch", "page", TRUE)
    /\ UNCHANGED <<batches, inventory, now, forecasts, savefile, detached>>
    /\ plan' = NoPlan

\* Two phase-change requests in flight, on two batches that were added
\* before.
NextConcPhase ==
    \/ AddBatch("b1", "dunkers", 600)
    \/ AddBatch("b2", "pilsner", 600)
    \/ \E t \in ThreadIds, id \in BatchIds, p \in {"ferm", "finished"},
          tank \in {"albert", "not applicable"} :
          ChangeBegin(t, id, p, tank)
    \/ \E t \in ThreadIds : ChangeDecide(t)
    \/ \E t \in ThreadIds : ChangeWritePhase(t)
    \/ \E t \in ThreadIds : ChangeWriteTank(t)
    \/ \E t \in ThreadIds : ChangeSetTimes(t)
    \/ \E t \in ThreadIds : PutTest(t)
    \/ \E t \in ThreadIds : PutFlag(t)
    \/ \E t \in ThreadIds : PutRead(t)
    \/ \E t \in ThreadIds : PutWrite(t)

SpecConcPhase == Init /\ [][NextConcPhase]_vars

\* Two dispatch requests in flight, after a batch was finished and orders
\* were registered one request at a time.
NextConcDispatch ==
    \/ AddBatch("b1", "dunkers", 600)
    \/ CreditRoom("b1", "finished")
          /\ ChangePhase("b1", "finished", "not applicable")
    \/ \E i \in InvoiceNumbers : RegisterOrder(i, "dunkers", 1000)
    \/ \E t \in ThreadIds, i \in InvoiceNumbers : DispatchBegin(t, i)
    \/ \E t \in ThreadIds : DispatchStockTest(t)
    \/ \E t \in ThreadIds : DebitRead(t)
    \/ \E t \in ThreadIds : DebitWrite(t)
    \/ \E t \in ThreadIds : DispatchMark(t)

SpecConcDispatch == Init /\ [][NextConcDispatch]_vars

(***************************************************************************)
(* Properties                                                              *)
(***************************************************************************)
\* The position of a phase in the production order.
Rank(phase) ==
    CASE phase = "" -> 0
      [] phase = "hot brewing" -> 1
      [] phase = "ferm" -> 2
      [] phase = "cond" -> 3
      [] phase = "bottling" -> 4
      [] phase = "finished" -> 5

Active(b) == b.phase_current # "finished"

HoldsTank(b) == b.phase_current_tank \in TankNames

\* C1: no two distinct batches that are not finished have the same catalog
\* tank as their assigned tank.
C1_NoSharedTank ==
    \A i, j \in DOMAIN batches :
        (/\ i # j
         /\ Active(batches[i])
         /\ Active(batches[j])
         /\ HoldsTank(batches[i]))
            => batches[i].phase_current_tank # batches[j].phase_current_tank

\* Two batches hold tanks and a request for a held tank was just refused.
C1_Witness ==
    /\ \E i, j \in DOMAIN batches :
          i # j /\ HoldsTank(batches[i]) /\ HoldsTank(batches[j])
    /\ resp.text = "select available tank"

\* C2: every batch in fermenting or conditioning is in a catalog tank that
\* has that capability and a capacity of at least the batch's volume; no
\* batch is conditioning in r2d2.
C2_TankFits ==
    \A i \in DOMAIN batches :
        batches[i].phase_current \in {"ferm", "cond"} =>
            /\ batches[i].phase_current_tank \in TankNames
            /\ batches[i].phase_current
                  \in Tanks[batches[i].phase_current_tank].capability
            /\ Tanks[batches[i].phase_current_tank].volume
                  >= batches[i].volume
            /\ ~(/\ batches[i].phase_current = "cond"
                 /\ batches[i].phase_current_tank = "r2d2")

\* A batch is fermenting in r2d2 and a request was just refused for the
\* tank's capability or volume.
C2_Witness ==
    /\ \E i \in DOMAIN batches :
          /\ batches[i].phase_current = "ferm"
          /\ batches[i].phase_current_tank = "r2d2"
    /\ resp.text = "select right tank"

RECURSIVE Bottles(_, _, _)
\* The bottles of the batches S of beer type t: two per litre.
Bottles(bs, S, t) ==
    IF S = {} THEN 0
    ELSE LET i == CHOOSE x \in S : TRUE
         IN (IF bs[i].beer_type = t THEN 2 * bs[i].volume ELSE 0)
                + Bottles(bs, S \ {i}, t)

\* The batches that reach finished in a step.
Finishing ==
    {i \in DOMAIN batches \cap DOMAIN batches' :
        /\ batches[i].phase_current # "finished"
        /\ batches'[i].phase_current = "finished"}

\* C3: with phase changes as the only source of ledger changes, every step
\* adds to the ledger exactly the bottles of the batches that reach finished
\* in that step, and a finished batch never leaves finished, so that the
\* ledger is credited once for a batch that reaches finished and never for
\* any other.
C3_CreditedOnce ==
    [][/\ \A t \in BeerTypes :
            inventory'[t] = inventory[t] + Bottles(batches, Finishing, t)
       /\ \A i \in DOMAIN batches \cap DOMAIN batches' :
            batches[i].phase_current = "finished"
                => batches'[i].phase_current = "finished"]_vars

\* A finished batch whose bottles are the whole ledger count of its type.
C3_Witness ==
    \E i \in DOMAIN batches :
        /\ batches[i].phase_current = "finished"
        /\ batches[i].bottles_put_in_inventory
        /\ inventory[batches[i].beer_type] = 2 * batches[i].volume

\* C4: no step of the batch and order commands makes the ledger count of
\* a beer type negative (the counts start at 0), and a dispatch refused for
\* lack of stock leaves the ledger and the orders as they were.
C4_LedgerNonNegative ==
    [][/\ \A t \in BeerTypes : inventory'[t] >= 0
       /\ resp'.text = "not enough bottles"
            => inventory' = inventory /\ orders' = orders]_vars

\* A dispatch was refused while bottles of the ordered type are in stock.
C4_Witness ==
    /\ resp.text = "not enough bottles"
    /\ \E i \in DOMAIN orders :
          /\ orders[i].dispatched = ""
          /\ inventory[orders[i].recipe] > 0
          /\ inventory[orders[i].recipe] < orders[i].quantity_ordered

\* The step is a request that changes the batch and logs the change.
Accepted(id, phase_input, tank_input) ==
    /\ id \in DOMAIN batches
    /\ resp' = Response("change_batchs_phase", "page", TRUE)
    /\ ChangePhase(id, phase_input, tank_input)

\* C5 as claimed: each accepted phase change strictly increases the batch's
\* phase in the order unset < hot brewing < ferm < cond < bottling < finished.
C5_StrictlyForward ==
    [][\A id \in BatchIds, p \in Phases, t \in TankInputs :
          Accepted(id, p, t)
              => Rank(batches'[id].phase_current)
                    > Rank(batches[id].phase_current)]_vars

\* The phase whose completion the code records on entering a phase.
Predecessor(phase) ==
    CASE phase = "hot brewing" -> ""
      [] phase = "ferm" -> "hot brewing"
      [] phase = "cond" -> "ferm"
      [] phase = "bottling" -> "cond"
      [] phase = "finished" -> "bottling"

OnFinished(id, phase_input, tank_input) ==
    /\ id \in DOMAIN batches
    /\ batches[id].phase_current = "finished"
    /\ ChangePhase(id, phase_input, tank_input)

Credited(t) ==
    Bottles(batches,
            {i \in DOMAIN batches : batches[i].bottles_put_in_inventory}, t)

RECURSIVE Ordered(_, _)
\* The bottles of the orders S.
Ordered(S, t) ==
    IF S = {} THEN 0
    ELSE LET i == CHOOSE x \in S : TRUE
         IN (IF orders[i].recipe = t THEN orders[i].quantity_ordered ELSE 0)
                + Ordered(S \ {i}, t)

\* The bottles the dispatched orders of beer type t took from the ledger.
Dispatched(t) ==
    Ordered({i \in DOMAIN orders : orders[i].dispatched = "dispatched"}, t)

\* C8 as claimed: once the requests in flight have returned, no two active
\* batches hold the same catalog tank.
C8_OneHolderPerTank ==
    NoThreads => C1_NoSharedTank

\* C9 as claimed: the ledger count never becomes negative and, once the
\* dispatch requests in flight have returned, every dispatched order has
\* been debited once.
C9_DebitedOnce ==
    \A t \in BeerTypes :
        /\ inventory[t] >= 0
        /\ NoThreads => inventory[t] = Credited(t) - Dispatched(t)

\* C10 as claimed: once the requests in flight have returned, the ledger
\* holds the bottles of every credited batch once.
C10_CreditedOnce ==
    NoThreads => \A t \in BeerTypes : inventory[t] = Credited(t)

\* C11: a request for hot brewing, bottling or finished is accepted only
\* with the tank "not applicable" and a request for ferm or cond is never
\* accepted with the tank "not applicable"; after every step, a batch that
\* is in no phase or in hot brewing, bottling or finished holds no catalog
\* tank.
C11_NoTankPhases ==
    [][/\ \A id \in BatchIds, p \in Phases,
             t \in TankInputs \cup {"zeppelin"} :
            Accepted(id, p, t)
                => /\ p \in {"hot brewing", "bottling", "finished"}
                        => t = "not applicable"
                   /\ p \in {"ferm", "cond"} => t # "not applicable"
       /\ \A id \in DOMAIN batches' :
            batches'[id].phase_current
                  \in {"", "hot brewing", "bottling", "finished"}
                => batches'[id].phase_current_tank \notin TankNames]_vars

\* A batch that was in a tank is bottling without a tank, and a request
\* was just refused.
C11_Witness ==
    /\ resp.text = "select right tank"
    /\ \E id \in DOMAIN batches :
          /\ batches[id].phase_current = "bottling"
          /\ batches[id].phase_current_tank = "not applicable"
          /\ batches[id].time_start[2] # Unset

\* The tanks held by the batches other than id.
HeldByOthers(id) ==
    {batches[j].phase_current_tank : j \in DOMAIN batches \ {id}}
        \cap TankNames

\* C12: for a batch that is in ferm in tank T, a request for cond naming T
\* is accepted whenever T has the cond capability and the volume for the
\* batch, and the batch is then in cond in T; a request for cond naming a
\* tank that another batch holds is refused and changes no batch.
C12_KeepsOwnTank ==
    [][\A id \in BatchIds, t \in FrameTanks :
          (/\ id \in DOMAIN batches
           /\ batches[id].phase_current = "ferm"
           /\ batches[id].phase_current_tank \in TankNames
           /\ ChangePhase(id, "cond", t))
              => /\ (/\ t = batches[id].phase_current_tank
                     /\ "cond" \in Tanks[t].capability
                     /\ Tanks[t].volume >= batches[id].volume)
                        => /\ resp'.logged
                           /\ batches'[id].phase_current = "cond"
                           /\ batches'[id].phase_current_tank = t
                 /\ t \in HeldByOthers(id)
                        => /\ resp'.text = "select available tank"
                           /\ batches' = batches]_vars

\* A batch is in cond in the tank it was fermenting in, while the other
\* batch holds a tank too.
C12_Witness ==
    /\ resp = Response("change_batchs_phase", "page", TRUE)
    /\ \E i, j \in DOMAIN batches :
          /\ i # j
          /\ batches[i].phase_current = "cond"
          /\ batches[i].phase_current_tank = "albert"
          /\ batches[i].time_start[2] # Unset
          /\ HoldsTank(batches[j])

\* The request must be refused: the tank is held by another batch, lacks the
\* capability or the volume, is given for a phase without a tank, or is
\* missing for ferm or cond.
MustRefuse(id, phase_input, tank_input) ==
    \/ tank_input \in HeldByOthers(id)
    \/ /\ tank_input \in TankNames
       /\ phase_input \in {"ferm", "cond"}
       /\ \/ phase_input \notin Tanks[tank_input].capability
          \/ Tanks[tank_input].volume < batches[id].volume
    \/ /\ phase_input \in {"hot brewing", "bottling", "finished"}
       /\ tank_input # "not applicable"
    \/ /\ phase_input \in {"ferm", "cond"}
       /\ tank_input = "not applicable"

\* C13: a request that must be refused leaves every batch, the ledger and
\* the orders as they were, and logs nothing.
C13_RefusedChangesNothing ==
    [][\A id \in BatchIds, p \in FramePhases, t \in FrameTanks :
          (/\ id \in DOMAIN batches
           /\ MustRefuse(id, p, t)
           /\ resp'.handler = "change_batchs_phase"
           /\ ChangePhase(id, p, t))
              => /\ batches' = batches
                 /\ inventory' = inventory
                 /\ orders' = orders
                 /\ ~resp'.logged]_vars

\* A request was refused for the tank's capability or volume while a batch
\* holds a tank, the ledger holds bottles and an order is registered.
C13_Witness ==
    /\ resp.text = "select right tank"
    /\ \E id \in DOMAIN batches : HoldsTank(batches[id])
    /\ LedgerTotal > 0
    /\ DOMAIN orders # {}

\* C14: a step in which a batch that was not credited reaches finished adds
\* volume x 2 bottles to the ledger count of the batch's beer type, sets the
\* batch's bottle number and credited flag, and changes neither the count of
\* another beer type nor an order.
C14_CreditAmount ==
    [][\A i \in Finishing :
          ~batches[i].bottles_put_in_inventory
              => /\ inventory' =
                      [inventory EXCEPT ![batches[i].beer_type] =
                          @ + batches[i].volume * 2]
                 /\ batches'[i].bottles_put_in_inventory
                 /\ batches'[i].num_bottles_to_inv = batches[i].volume * 2
                 /\ orders' = orders]_vars

\* A batch was just credited while the ledger holds bottles of another beer
\* type and an order is registered.
C14_Witness ==
    /\ resp = Response("change_batchs_phase", "page", TRUE)
    /\ DOMAIN orders # {}
    /\ \E i \in DOMAIN batches :
          /\ batches[i].bottles_put_in_inventory
          /\ inventory[batches[i].beer_type] = batches[i].volume * 2
          /\ \E t \in BeerTypes \ {batches[i].beer_type} : inventory[t] > 0

\* C15: a dispatch of a pending order either marks the order dispatched and
\* takes the ordered quantity from the ledger count of the order's beer type
\* and from no other count, or (the count is lower than the quantity) leaves
\* the order pending and the ledger as it was; it changes no other order and
\* no batch.
C15_AllOrNothing ==
    [][\A i \in InvoiceNumbers :
          (/\ i \in DOMAIN orders
           /\ orders[i].dispatched = ""
           /\ DispatchOrder(i))
              => /\ IF inventory[orders[i].recipe]
                         >= orders[i].quantity_ordered
                    THEN /\ orders' =
                              [orders EXCEPT ![i].dispatched = "dispatched"]
                         /\ inventory' =
                              [inventory EXCEPT ![orders[i].recipe] =
                                  @ - orders[i].quantity_ordered]
                    ELSE /\ orders' = orders
                         /\ inventory' = inventory
                 /\ batches' = batches]_vars

\* An order of pilsner was just dispatched while bottles of dunkers are in
\* the ledger and the other order is pending.
C15_Witness ==
    /\ resp = Response("dispatch", "page", TRUE)
    /\ inventory["dunkers"] > 0
    /\ \E i, j \in DOMAIN orders :
          /\ orders[i].dispatched = "dispatched"
          /\ orders[i].recipe = "pilsner"
          /\ orders[j].dispatched = ""

\* The orders that are pending before a step and dispatched after it.
Dispatching ==
    {i \in DOMAIN orders \cap DOMAIN orders' :
        /\ orders[i].dispatched = ""
        /\ orders'[i].dispatched = "dispatched"}

\* C16: a dispatch of an order that is dispatched already answers that the
\* order has been dispatched and leaves the ledger and the orders as they
\* were; a dispatched order stays dispatched while it is registered, and a
\* step takes bottles from the ledger only for the orders that become
\* dispatched in it, so that an order is debited at most once.
C16_DispatchedOnce ==
    [][/\ \A i \in InvoiceNumbers :
            (/\ i \in DOMAIN orders
             /\ orders[i].dispatched = "dispatched"
             /\ DispatchOrder(i))
                => /\ resp'.text = "already dispatched"
                   /\ inventory' = inventory
                   /\ orders' = orders
       /\ \A i \in DOMAIN orders \cap DOMAIN orders' :
            orders[i].dispatched = "dispatched" => orders'[i] = orders[i]
       /\ \A t \in BeerTypes :
            inventory'[t] = inventory[t] + Bottles(batches, Finishing, t)
                                - Ordered(Dispatching, t)]_vars

\* A second dispatch of a dispatched order was just refused.
C16_Witness ==
    /\ resp = Response("dispatch", "already dispatched", FALSE)
    /\ \E i \in DOMAIN orders :
          /\ orders[i].dispatched = "dispatched"
          /\ inventory[orders[i].recipe] >= orders[i].quantity_ordered

\* The requests to register an order under an invoice number in use.
OnRegistered(invoice, recipe, quantity) ==
    /\ invoice \in DOMAIN orders
    /\ RegisterOrder(invoice, recipe, quantity)

\* The requests to register an order under a new invoice number.
OnNewInvoice(invoice, recipe, quantity) ==
    /\ invoice \notin DOMAIN orders
    /\ RegisterOrder(invoice, recipe, quantity)

PhaseNumber(b) ==
    CASE b.phase_current = "hot brewing" -> 1
      [] b.phase_current = "ferm" -> 2
      [] b.phase_current = "cond" -> 3
      [] b.phase_current = "bottling" -> 4
      [] OTHER -> 0

RECURSIVE Remaining(_, _)
\* The durations of the phases after phase k.
Remaining(b, k) ==
    IF k >= 4 THEN 0 ELSE duration_phase(b, k + 1) + Remaining(b, k + 1)

\* C20 as claimed: for a batch that is not credited and is in one of the
\* four phases, the planner's finish time is the end time of the phase the
\* batch is in plus the durations of the phases after it.
C20_FromCurrentPhase ==
    \A id \in DOMAIN batches :
        (/\ ~batches[id].bottles_put_in_inventory
         /\ PhaseNumber(batches[id]) > 0)
            => projected_finish(batches[id])
                  = batches[id].time_end[PhaseNumber(batches[id])]
                        + Remaining(batches[id], PhaseNumber(batches[id]))

\* The year and month of the bucket with the given index: the month of t,
\* the month after it, and the month after that.
WindowKey(t, index) ==
    LET m == DateOf(t).month + (index - 1)
    IN IF m > 12 THEN <<DateOf(t).year + 1, m - 12>>
       ELSE <<DateOf(t).year, m>>

\* The batches that are not credited and have an end time.
Projected ==
    {id \in DOMAIN batches :
        /\ ~batches[id].bottles_put_in_inventory
        /\ projected_finish(batches[id]) # Unset}

\* The year and month in which the planner expects the batch to be finished.
FinishKey(id) ==
    <<DateOf(projected_finish(batches[id])).year,
      DateOf(projected_finish(batches[id])).month>>

\* C21 as claimed: in a report of the planner, the bottles that the batches
\* add to a bucket of a beer type are those of the batches of that type that
\* are not credited and whose projected finish lies in the year and month of
\* the bucket.
C21_SameYearAndMonth ==
    plan.kind = "recommendation" =>
        \A beer_type \in BeerTypes, index \in 1..3 :
            plan.end_inv[beer_type][index]
                - (IF index = 1 THEN inventory[beer_type] ELSE 0)
              = Bottles(batches,
                        {id \in Projected :
                            FinishKey(id) = WindowKey(now, index)},
                        beer_type)

\* C22 as claimed: the date-indices of the forecast are the month of the
\* current date and the two months after it.
C22_ConsecutiveMonths ==
    forecast_keys(now)
        = <<WindowKey(now, 1), WindowKey(now, 2), WindowKey(now, 3)>>

\* C23: in a report made in November or December, the bucket of next month
\* or of the third month that stands for January or February holds the
\* bottles of the batches, not credited, whose projected finish lies in that
\* month, those finishing in that month of the following year included.
C23_MonthWrap ==
    (plan.kind = "recommendation" /\ DateOf(now).month \in {11, 12}) =>
        \A beer_type \in BeerTypes, index \in 2..3 :
            WindowKey(now, index)[1] = DateOf(now).year + 1 =>
                /\ WindowKey(now, index)[2] \in {1, 2}
                /\ plan.end_inv[beer_type][index]
                     = Bottles(batches,
                               {id \in Projected :
                                   FinishKey(id)[2]
                                       = WindowKey(now, index)[2]},
                               beer_type)
                /\ plan.end_inv[beer_type][index]
                     >= Bottles(batches,
                                {id \in Projected :
                                    FinishKey(id) = WindowKey(now, index)},
                                beer_type)

\* A report made in December 2023 has in the bucket of the third month the
\* bottles of a batch that is expected to be finished in February 2024.
C23_Witness ==
    /\ plan.kind = "recommendation"
    /\ DateOf(now).month = 12
    /\ \E id \in Projected :
          /\ FinishKey(id) = <<DateOf(now).year + 1, 2>>
          /\ plan.end_inv[batches[id].beer_type][3]
                = batches[id].volume * 2

\* The deficit of a beer type in a report.
Deficit(beer_type) ==
    (plan.end_inv[beer_type][1] + plan.end_inv[beer_type][2]
        + plan.end_inv[beer_type][3])
    - (plan.forecast[beer_type][1] + plan.forecast[beer_type][2]
        + plan.forecast[beer_type][3])

\* The position of a beer type in the order dunkers, pilsner, red_helles.
Position(beer_type) ==
    CASE beer_type = "dunkers" -> 1
      [] beer_type = "pilsner" -> 2
      [] beer_type = "red_helles" -> 3

\* C24: the beer type of a report has a deficit that is not higher than that
\* of any beer type, and lower than that of every beer type before it in
\* the order dunkers, pilsner, red_helles; with forecasts of 50, 30 and 20
\* bottles and 10, 40 and 5 bottles in the ledger it is dunkers, with a
\* deficit of -40.
C24_LowestDeficit ==
    plan.kind = "recommendation" =>
        /\ \A beer_type \in BeerTypes :
              /\ Deficit(plan.produce_beer) <= Deficit(beer_type)
              /\ Position(beer_type) < Position(plan.produce_beer)
                    => Deficit(plan.produce_beer) < Deficit(beer_type)
        /\ (/\ inventory = [dunkers |-> 10, pilsner |-> 40, red_helles |-> 5]
            /\ DOMAIN forecasts = BeerTypes
            /\ \A beer_type \in BeerTypes :
                  plan.forecast[beer_type][1] + plan.forecast[beer_type][2]
                      + plan.forecast[beer_type][3]
                    = (CASE beer_type = "dunkers" -> 50
                         [] beer_type = "pilsner" -> 30
                         [] beer_type = "red_helles" -> 20))
              => /\ plan.produce_beer = "dunkers"
                 /\ Deficit("dunkers") = -40

\* A report for three beer types with the same deficit.
C24_Witness ==
    /\ plan.kind = "recommendation"
    /\ plan.produce_beer = "dunkers"
    /\ Deficit("dunkers") = Deficit("pilsner")
    /\ Deficit("pilsner") = Deficit("red_helles")

\* The tanks that can ferment and that no batch holds.
FreeFermTanks ==
    {t \in TankNames :
        /\ "ferm" \in Tanks[t].capability
        /\ \A id \in DOMAIN batches : batches[id].phase_current_tank # t}

\* The position of a tank name in the alphabet.
Alphabetical(tank_name) ==
    CHOOSE i \in 1..Len(TankOrder) : TankOrder[i] = tank_name

\* C25: the tank of a report is held by no batch, can ferment, and no tank
\* of that kind has a higher volume, or the same volume and a name earlier
\* in the alphabet; if every tank that can ferment is held, the report names
\* no tank.
C25_LargestFreeTank ==
    plan.kind = "recommendation" =>
        IF FreeFermTanks = {}
        THEN plan.use_tank = NoTank
        ELSE /\ plan.use_tank \in FreeFermTanks
             /\ \A t \in FreeFermTanks :
                   /\ Tanks[t].volume <= Tanks[plan.use_tank].volume
                   /\ Tanks[t].volume = Tanks[plan.use_tank].volume
                         => Alphabetical(plan.use_tank) <= Alphabetical(t)

\* A report while every tank that can ferment is held.
C25_Witness ==
    /\ plan.kind = "recommendation"
    /\ plan.use_tank = NoTank
    /\ Cardinality(DOMAIN batches) = 7

\* C26: in a report, the bucket of this month of a beer type holds the
\* ledger count of the type once, next to the bottles of the batches of that
\* bucket; the buckets of next month and the third month hold the bottles of
\* their batches only.
C26_LedgerInThisMonthOnly ==
    plan.kind = "recommendation" =>
        \A beer_type \in BeerTypes, index \in 1..3 :
            plan.end_inv[beer_type][index]
              = batches_bottles(batches, DOMAIN batches, beer_type, index,
                                now)
                  + (IF index = 1 THEN inventory[beer_type] ELSE 0)

\* A report with bottles in the ledger and a batch in the bucket of next
\* month.
C26_Witness ==
    /\ plan.kind = "recommendation"
    /\ inventory["dunkers"] > 0
    /\ plan.end_inv["dunkers"][1] = inventory["dunkers"]
    /\ plan.end_inv["dunkers"][2] > 0

\* C27: a request to the planner, whatever it answers, leaves the batches,
\* the ledger, the orders and the forecasts as they were.
C27_PlannerReadsOnly ==
    [][(plan'.kind # "none" /\ PlanProduction)
          => /\ batches' = batches
             /\ inventory' = inventory
             /\ orders' = orders
             /\ forecasts' = forecasts]_vars

\* A report while a batch is in a tank, bottles are in the ledger and an
\* order is registered.
C27_Witness ==
    /\ plan.kind = "recommendation"
    /\ \E id \in DOMAIN batches : HoldsTank(batches[id])
    /\ LedgerTotal > 0
    /\ DOMAIN orders # {}

\* C28: a request to the planner while no forecast is stored answers that no
\* prediction has been made and gives no report; it gives a report only
\* while forecasts are stored, and then if and only if every forecast stored
\* has the three months looked up.
C28_ForecastNotReady ==
    [][(plan'.kind # "none" /\ PlanProduction)
          => IF DOMAIN forecasts = {}
             THEN /\ plan'.kind = "not ready"
                  /\ resp'.text = "no prediction"
             ELSE /\ plan'.kind \in {"recommendation", "error"}
                  /\ plan'.kind = "recommendation"
                        <=> HasKeys(forecasts, now)]_vars

\* The planner just answered that no prediction has been made.
C28_Witness ==
    /\ plan.kind = "not ready"
    /\ resp = Response("plan_production", "no prediction", FALSE)
    /\ DOMAIN forecasts = {}

\* C29: the last completed phase of every batch is the predecessor of the
\* phase the batch is in: none for a batch in no phase or in hot brewing,
\* hot brewing for ferm, ferm for cond, cond for bottling, bottling for
\* finished.
C29_LastCompleted ==
    \A id \in DOMAIN batches :
        batches[id].phase_last_completed
            = (IF batches[id].phase_current = "" THEN ""
               ELSE Predecessor(batches[id].phase_current))

\* A batch is back in hot brewing after it was in cond.
C29_Witness ==
    \E id \in DOMAIN batches :
        /\ batches[id].phase_current = "hot brewing"
        /\ batches[id].phase_last_completed = ""
        /\ batches[id].time_start[3] # Unset

\* The minutes the phase with the given number takes.
Minutes(volume, k) ==
    CASE k = 1 -> 300
      [] k = 2 -> 40320
      [] k = 3 -> 20160
      [] k = 4 -> volume * 2

\* C30: an accepted request for hot brewing, ferm, cond or bottling sets the
\* start of that phase to the time of the request and its end to 5 h, 672 h,
\* 336 h or volume x 2 minutes later, and leaves the start and end of the
\* other three phases as they were; bottling 500 litres takes 1000 minutes.
C30_StartAndEnd ==
    [][/\ \A id \in BatchIds, p \in Phases \ {"finished"},
             t \in TankInputs :
            Accepted(id, p, t)
                => /\ batches'[id].time_start[Rank(p)] = now
                   /\ batches'[id].time_end[Rank(p)]
                        = now + Minutes(batches[id].volume, Rank(p))
                   /\ \A k \in (1..4) \ {Rank(p)} :
                        /\ batches'[id].time_start[k]
                              = batches[id].time_start[k]
                        /\ batches'[id].time_end[k]
                              = batches[id].time_end[k]
       /\ duration_phase([volume |-> 500], 4) = 1000]_vars

\* A batch went into hot brewing and, a minute later, into bottling.
C30_Witness ==
    /\ resp = Response("change_batchs_phase", "page", TRUE)
    /\ \E id \in DOMAIN batches :
          /\ batches[id].phase_current = "bottling"
          /\ batches[id].time_start[1] = 0
          /\ batches[id].time_start[4] = 1
          /\ batches[id].time_end[4] = 1 + batches[id].volume * 2

\* The request for ferm or cond in a tank of the catalog is refused: the
\* batch is not finished, and another batch holds the tank or the tank lacks
\* the capability or the volume.
TankRefused(id, phase_input, tank_input) ==
    /\ id \in DOMAIN batches
    /\ NotFinished(batches[id])
    /\ \/ tank_input \in HeldByOthers(id)
       \/ phase_input \notin Tanks[tank_input].capability
       \/ Tanks[tank_input].volume < batches[id].volume

\* C31 as claimed: every refused request for ferm or cond, whether the tank
\* is held by another batch, lacks the capability or is too small, returns
\* a message that lists exactly the tanks of the catalog that no other batch
\* holds.
C31_RefusalListsFreeTanks ==
    [][\A id \in BatchIds, p \in {"ferm", "cond"},
          t \in TankInputs \cap TankNames :
          (/\ resp'.handler = "change_batchs_phase"
           /\ TankRefused(id, p, t)
           /\ ChangePhase(id, p, t))
              => /\ resp'.text # "page"
                 /\ resp'.tanks = TankNames \ HeldByOthers(id)]_vars

\* C32: a save that succeeds writes the batches, the orders, the ledger
\* counts and the forecasts as they are into the file; no request but a save
\* that succeeds changes the file; a load that succeeds makes the batches,
\* the orders, the ledger counts and the forecasts those of the file, so
\* those of the moment of the save whatever was done in between; a load
\* without a file, or of a file that may not be read, changes none of them.
C32_RoundTrip ==
    [][/\ resp'.handler = "save_program_state"
            => /\ \E denied \in BOOLEAN : SaveState(denied)
               /\ IF resp'.text = "saved"
                  THEN /\ savefile'.batches = batches
                       /\ savefile'.orders = orders
                       /\ savefile'.inventory = inventory
                       /\ savefile'.forecasts = forecasts
                  ELSE savefile' = savefile
       /\ resp'.handler # "save_program_state" => savefile' = savefile
       /\ \A denied \in BOOLEAN :
            (resp'.handler = "load_program_state" /\ LoadState(denied))
                => IF resp'.text = "loaded"
                   THEN /\ savefile # NoFile
                        /\ batches' = savefile.batches
                        /\ orders' = savefile.orders
                        /\ inventory' = savefile.inventory
                        /\ forecasts' = savefile.forecasts
                   ELSE /\ batches' = batches
                        /\ orders' = orders
                        /\ inventory' = inventory
                        /\ forecasts' = forecasts]_vars

\* The program state was just loaded from a file that holds a batch, an
\* order, bottles and forecasts.
C32_Witness ==
    /\ resp.handler = "load_program_state"
    /\ resp.text = "loaded"
    /\ batches = savefile.batches /\ DOMAIN batches # {}
    /\ orders = savefile.orders /\ DOMAIN orders # {}
    /\ inventory = savefile.inventory /\ LedgerTotal > 0
    /\ forecasts = savefile.forecasts /\ DOMAIN forecasts # {}

\* The batches whose bottles are put into the inventory in a step.
Crediting ==
    {i \in DOMAIN batches \cap DOMAIN batches' :
        /\ ~batches[i].bottles_put_in_inventory
        /\ batches'[i].bottles_put_in_inventory}

\* C33: the ledger starts empty and every step of batch and order commands
\* changes the count of a beer type by two bottles per litre of the batches
\* of that type credited in the step, minus the quantities of the orders of
\* that type dispatched in the step; deleting a credited batch or a
\* dispatched order changes no count.  The count is therefore the credits
\* of all batches ever credited minus the quantities of all orders ever
\* dispatched.
C33_LedgerConservation ==
    /\ \A t \in BeerTypes : inventory[t] = 0
    /\ [][\A t \in BeerTypes :
            inventory'[t] = inventory[t] + Bottles(batches, Crediting, t)
                                - Ordered(Dispatching, t)]_vars

\* The batch that was credited and the order that was dispatched have both
\* been deleted: the 600 bottles left are 1200 credited minus 600 taken.
C33_Witness ==
    /\ batches = <<>>
    /\ orders = <<>>
    /\ inventory["dunkers"] = 600

\* C34: a batch's bottles are marked as put into the inventory if and only
\* if its current phase is finished.
C34_CreditedIffFinished ==
    \A i \in DOMAIN batches :
        batches[i].bottles_put_in_inventory
            <=> batches[i].phase_current = "finished"

\* A finished batch that was loaded from the file.
C34_Witness ==
    /\ resp.handler = "load_program_state"
    /\ resp.text = "loaded"
    /\ \E i \in DOMAIN batches : batches[i].bottles_put_in_inventory

\* The tanks of the batches that are in ferm or cond.
TanksInUse ==
    {batches[j].phase_current_tank :
        j \in {k \in DOMAIN batches :
                  batches[k].phase_current \in {"ferm", "cond"}}}

\* C35: the tanks of the catalog that a request of a batch without a tank
\* finds unavailable are the tanks of the batches in ferm or cond, and these
\* are the tanks any batch holds.
C35_NoTankLeaks ==
    /\ used_tanks(batches) \cap TankNames = TanksInUse
    /\ \A id \in DOMAIN batches :
          ~HoldsTank(batches[id])
              => TankNames \ available_tanks(batches, id) = TanksInUse

\* A batch that left its tank for bottling next to a batch without a tank,
\* with no tank in use.
C35_Witness ==
    /\ TanksInUse = {}
    /\ \E i, j \in DOMAIN batches :
          /\ batches[i].phase_current = "bottling"
          /\ batches[i].time_start[2] # Unset
          /\ batches[j].phase_current = ""

\* The planner recommends a tank of the catalog.
Recommended ==
    /\ plan.kind = "recommendation"
    /\ plan.use_tank \in TankNames

\* A request for ferm in the tank would be accepted.
WouldAccept(id, tank_name) ==
    /\ NotFinished(batches[id])
    /\ Decide(batches, id, "ferm", tank_name) = "change"

\* C36 as claimed: a request for ferm in the tank the planner recommends is
\* accepted for every batch that holds no tank and is not larger than the
\* tank.
C36_PlannerAndAllocatorAgree ==
    Recommended
        => \A id \in DOMAIN batches :
              (/\ ~HoldsTank(batches[id])
               /\ batches[id].volume <= Tanks[plan.use_tank].volume)
                  => WouldAccept(id, plan.use_tank)

\* C36, amended: a request for ferm in the tank the planner recommends is
\* accepted for every batch that is not finished, holds no tank and is not
\* larger than the tank.
C36_AgreeOnUnfinished ==
    Recommended
        => \A id \in DOMAIN batches :
              (/\ NotFinished(batches[id])
               /\ ~HoldsTank(batches[id])
               /\ batches[id].volume <= Tanks[plan.use_tank].volume)
                  => WouldAccept(id, plan.use_tank)

\* The planner recommends a tank of 800 litres, the tanks of 1000 litres
\* being held, while a batch of 600 litres holds no tank.
C36_Witness ==
    /\ Recommended
    /\ Tanks[plan.use_tank].volume = 800
    /\ \E id, large \in DOMAIN batches :
          /\ NotFinished(batches[id])
          /\ ~HoldsTank(batches[id])
          /\ batches[id].volume = 600
          /\ batches[large].volume = 900

\* C37 as claimed: the month number of each of the three buckets is the month
\* of the date-index the forecast of that bucket is looked up with.
C37_BucketAndKeyAgree ==
    \A index \in 1..3 :
        incre_month(now, index) = forecast_keys(now)[index][2]

\* C38: with the program state loaded from the file, the bottles of a batch
\* that is finished, whether it came from the file or was added later, are
\* added to the count of app.config["inventory"], which is the count a
\* dispatch tests and takes from and the planner reads; every batch holds
\* that Inventory object.
C38_OneLedger ==
    [][/\ \A i \in DOMAIN batches' :
            batches'[i].inventory = AppInventory
       /\ resp'.handler = "change_batchs_phase"
            => \A t \in BeerTypes :
                  inventory'[t] =
                      inventory[t] + Bottles(batches, Crediting, t)]_vars

\* A batch that is in the file without its bottles put into the inventory
\* was just finished: the ledger holds the bottles of the file and those of
\* the batch, enough for the pending order.
C38_Witness ==
    /\ resp = Response("change_batchs_phase", "page", TRUE)
    /\ savefile # NoFile
    /\ \E i \in DOMAIN batches \cap DOMAIN savefile.batches :
          /\ batches[i].bottles_put_in_inventory
          /\ ~savefile.batches[i].bottles_put_in_inventory
          /\ batches[i].time_start = savefile.batches[i].time_start
          /\ inventory[batches[i].beer_type] =
                savefile.inventory[batches[i].beer_type]
                    + 2 * batches[i].volume
    /\ \E o \in DOMAIN orders :
          /\ orders[o].dispatched = ""
          /\ inventory[orders[o].recipe] >= orders[o].quantity_ordered


====
